---- MODULE Spec2Model ----
(***************************************************************************)
(* State-machine model of tavern/core.py: the file runner `run` and the    *)
(* test runner `run_test` (stage loop, ExitStack of sessions, the variable *)
(* environment and the tavern_box namespace).                              *)
(***************************************************************************)
EXTENDS Integers, Sequences, FiniteSets, TLC

(* ---------- bounds of the model ---------- *)
MaxDocs == 3
MaxIncludes == 2
MaxSessions == 2
MaxStages == 2
MaxVerifiers == 2

(* ---------- values ---------- *)
\* Variable names of the environment; "tavern" is the key core.py reserves.
VarNames == {"token", "tavern"}

\* Values of the variables dict, tagged with the write that produced them:
\* the global configuration, include i of the running test, verifier v of stage
\* k of the running test, or the reference to tavern_box.  The second field is
\* 1 for a write of the running test and 0 for one of an earlier test of the file.
Absent == <<"absent", 0, 0, 0>>
GlobalVal == <<"global", 0, 0, 0>>
IncVal(i) == <<"include", 1, i, 0>>
SavedVal(k, v) == <<"saved", 1, k, v>>
BoxRef == <<"box", 0, 0, 0>>

\* The same value once the test that wrote it has ended.
Earlier(val) == IF val[1] \in {"include", "saved"} THEN <<val[1], 0, 0, 0>> ELSE val

EmptyDict == [n \in VarNames |-> Absent]

\* Variant of DictUpdate: a key the dict already holds keeps its value
\* (setdefault for each key of `other`).
DictSetDefault(dict, keys, val) ==
    [n \in VarNames |-> IF n \in keys /\ dict[n] = Absent THEN val ELSE dict[n]]

\* dict.update(other): keys of `other` overwrite, the rest is kept.
DictUpdate(dict, keys, val) == [n \in VarNames |-> IF n \in keys THEN val ELSE dict[n]]

\* The input file holds MaxDocs documents; these are the documents
\* yaml.load_all can yield.
DocKinds == {"null", "invalid", "valid"}

\* The mappings a verifier can return as ret.saved, by their keys.
SavedKeys == {{}} \cup {{n} : n \in VarNames}

\* The lists a verifier can return as ret.errors.
ErrorLists == {<<>>, <<"status code 500 != 200", "body mismatch">>}

(* ---------- exceptions ---------- *)
NoExc == [kind |-> "none", origin |-> "none", msg |-> <<>>]
Exc(kind, origin) == [kind |-> kind, origin |-> origin, msg |-> <<>>]

\* "\n- ".join(ret.errors)
RECURSIVE JoinErrors(_)
JoinErrors(errs) ==
    IF Len(errs) = 0 THEN <<>>
    ELSE IF Len(errs) = 1 THEN <<errs[1]>>
    ELSE <<errs[1], "\n- ">> \o JoinErrors(Tail(errs))

\* assertion_message(name=, file=, errors=, stage=, request=, response=)
assertion_message(name, file, errors, stage, request, response) ==
    <<" Test ", name, "\nfile: ", file, "\n\nfailed:\n">> \o errors
        \o <<"\n\nstage:\n", stage, "\nrequest:\n", request, "\n\nresponse:\n", response, "\n">>

\* isinstance(e, exceptions.TestFailError).  tavern.util.exceptions is imported
\* (line 12), not defined, by core.py; the classes are taken as the design
\* describes them: every failure a collaborator raises out of run_test
\* (dispatch, request, session) is one the per-document handler catches.
\* AssertionError is Python's builtin, so it cannot derive from TestFailError.
IsTestFailError(e) == e.kind \in {"MissingFormatError", "RequestError", "SessionError"}

\* except exceptions.BadSchemaError
IsBadSchemaError(e) == e.kind = "BadSchemaError"

\* except exceptions.MissingFormatError
IsMissingFormatError(e) == e.kind = "MissingFormatError"

\* isinstance(e, exceptions.TavernException): the base class of the failures
\* the collaborators raise (taken from the design, as for IsTestFailError).
IsTavernException(e) == IsTestFailError(e) \/ IsBadSchemaError(e)

VARIABLES
    test_spec,          \* the document yaml.load_all yielded last
    global_cfg,         \* the shared global configuration (top-level keys)
    global_init,        \* global configuration and its variables dict as loaded
    heap,               \* the variables dict objects: "G" of global_cfg, "T" per test
    idx,                \* number of documents yaml.load_all has yielded
    pc,                 \* position in run / run_test
    passed,             \* `passed` of run
    result,             \* what run did: "running", "True", "False", "raised"
    exc,                \* the exception in flight (NoExc when none)
    sawInvalid,         \* some document so far was schema-invalid
    sawFailed,          \* run_test raised for some document so far
    handled,            \* the exception the handler of run caught for the last document
    test_block_config,  \* the per-test configuration: which dict "variables" refers to
    tavern_box,         \* the Box created by the current run_test
    nIncludes, inc,     \* test_spec["includes"]: length and loop index
    nSessions, sidx,    \* get_extra_sessions(test_spec): size and loop index
    stack,              \* ExitStack: sessions entered, in order
    acquired, released, \* per session: times __enter__ succeeded / __exit__ ran
    nStages, stage,     \* test_spec["stages"]: length and loop index
    nVerifiers, vi,     \* get_verifiers(...): length and loop index
    ret,                \* ret = v.verify(response): its errors and the keys of its saved
    npass,              \* log_pass events of the current test
    caller,             \* who calls run_test: "run", or "direct" (run_test called by itself)
    nwarn,              \* logger.warning events for the current document
    raised,             \* the exception raised inside run_test (NoExc when none)
    fail_log,           \* log_fail events of the current test, in order
    included            \* the names `included["variables"]` declares (loop variable of 96)

vars == <<test_spec, global_cfg, global_init, heap, idx, pc, passed, result, exc,
          sawInvalid, sawFailed, handled, test_block_config, tavern_box, nIncludes, inc, nSessions, sidx,
          stack, acquired, released, nStages, stage, nVerifiers, vi, ret, npass,
          caller, nwarn, raised, fail_log, included>>

runVars == <<idx, test_spec, passed, result, sawInvalid, sawFailed, handled, nwarn>>
cfgVars == <<global_cfg, global_init, caller>>
envVars == <<heap, test_block_config, tavern_box>>
sessVars == <<nSessions, sidx, stack, acquired, released>>
stageVars == <<nStages, stage, nVerifiers, vi, ret, npass, fail_log>>
incVars == <<nIncludes, inc, included>>

NoRet == [errors |-> <<>>, saved |-> {}]

Sessions == 1..MaxSessions
NoCounts == [s \in Sessions |-> 0]

\* load_global_config: with or without a "variables" layer.
GlobalConfigs ==
    {[cfg |-> [hasVariables |-> FALSE], variables |-> EmptyDict],
     [cfg |-> [hasVariables |-> TRUE], variables |-> [EmptyDict EXCEPT !["token"] = GlobalVal]]}

\* State of run after lines 189-194: passed = True, global_cfg loaded, file open;
\* or the state at a call of run_test by another caller than run, which is
\* modelled for the one document run never hands over: the empty one.
Init ==
    /\ test_spec = "null"
    /\ caller \in {"run", "direct"}
    /\ global_init \in GlobalConfigs
    /\ global_cfg = global_init.cfg
    /\ heap = [G |-> global_init.variables, T |-> EmptyDict]
    /\ idx = 0
    /\ pc = (IF caller = "run" THEN "load" ELSE "run_test")
    /\ passed = TRUE
    /\ result = "running"
    /\ exc = NoExc
    /\ sawInvalid = FALSE /\ sawFailed = FALSE
    /\ handled = NoExc
    /\ test_block_config = [hasVariables |-> FALSE, variables |-> "T"]
    /\ tavern_box = [owner |-> 0, request_vars |-> 0]
    /\ nIncludes = 0 /\ inc = 0
    /\ nSessions = 0 /\ sidx = 0
    /\ stack = <<>>
    /\ acquired = NoCounts /\ released = NoCounts
    /\ nStages = 0 /\ stage = 0
    /\ nVerifiers = 0 /\ vi = 0
    /\ ret = NoRet
    /\ npass = 0
    /\ nwarn = 0
    /\ raised = NoExc
    /\ fail_log = <<>>
    /\ included = {}

\* The dict test_block_config["variables"] refers to.
Variables == heap[test_block_config.variables]

\* test_block_config["variables"][...] = ... : a write through the reference.
WriteVariables(dict) == [heap EXCEPT ![test_block_config.variables] = dict]

(* ---------- run: the per-document loop, lines 196-213 ---------- *)

\* for test_spec in yaml.load_all(...): the next document, not empty (196-197)
run_next ==
    /\ pc = "load" /\ idx < MaxDocs
    /\ \E doc \in DocKinds \ {"null"} : test_spec' = doc
    /\ idx' = idx + 1
    /\ handled' = NoExc
    /\ nwarn' = 0
    /\ pc' = "verify_tests"
    /\ UNCHANGED <<passed, result, sawInvalid, sawFailed, exc, raised, cfgVars, envVars, sessVars, stageVars, incVars>>

\* if not test_spec: logger.warning("Empty document ..."); continue (197-199)
run_empty ==
    /\ pc = "load" /\ idx < MaxDocs
    /\ test_spec' = "null"
    /\ idx' = idx + 1
    /\ handled' = NoExc
    /\ nwarn' = 1
    /\ pc' = "load"
    /\ UNCHANGED <<passed, result, sawInvalid, sawFailed, exc, raised, cfgVars, envVars, sessVars, stageVars, incVars>>

\* The loop is exhausted: return passed (213)
run_return ==
    /\ pc = "load" /\ idx = MaxDocs
    /\ result' = IF passed THEN "True" ELSE "False"
    /\ pc' = "done"
    /\ UNCHANGED <<idx, test_spec, passed, sawInvalid, sawFailed, handled, nwarn, exc, raised, cfgVars, envVars, sessVars,
                   stageVars, incVars>>

\* try: verify_tests(test_spec) except BadSchemaError: passed = False; continue (201-205)
run_verify_tests ==
    /\ pc = "verify_tests"
    /\ LET e == IF test_spec = "invalid" THEN Exc("BadSchemaError", "verify_tests") ELSE NoExc
       IN IF IsBadSchemaError(e)
          THEN /\ passed' = FALSE
               /\ sawInvalid' = TRUE
               /\ pc' = "load"
          ELSE /\ pc' = "run_test"
               /\ UNCHANGED <<passed, sawInvalid>>
    /\ UNCHANGED <<idx, test_spec, result, sawFailed, handled, nwarn, exc, raised, cfgVars, envVars, sessVars, stageVars, incVars>>

(* ---------- run_test: lines 80-162 ---------- *)

\* The set of elements of a sequence.
Range(seq) == {seq[i] : i \in 1..Len(seq)}

\* ExitStack.__exit__: the callbacks run last-in first-out, each once; an
\* exception raised by one (the sessions in `fails`) replaces the one in flight
\* and the remaining callbacks still run.  Gives the release counts and the
\* exception in flight once the stack is empty.
RECURSIVE ExitStackExit(_, _, _, _)
ExitStackExit(stk, rel, e, fails) ==
    IF stk = <<>> THEN [released |-> rel, exc |-> e]
    ELSE LET s == stk[Len(stk)]
         IN ExitStackExit(SubSeq(stk, 1, Len(stk) - 1),
                          [rel EXCEPT ![s] = @ + 1],
                          IF s \in fails THEN Exc("SessionError", "exit") ELSE e,
                          fails)

\* Variant of LeaveWith: the sessions are closed at the end of the body only,
\* not when an exception leaves it.
LeaveWithCloseAtEndOnly(e) ==
    /\ IF e = NoExc
       THEN LET u == ExitStackExit(stack, released, e, {})
            IN released' = u.released /\ exc' = u.exc
       ELSE released' = released /\ exc' = e
    /\ raised' = e
    /\ stack' = <<>>
    /\ pc' = "run_test_exit"

\* Leaving `with ExitStack() as stack:` (105) with exception e raised in its
\* body, or with NoExc at the end of the body: the stack unwinds (at most one
\* __exit__ raising), then run_test raises what is in flight or returns.
LeaveWith(e) ==
    /\ \E fails \in {{}} \cup {{s} : s \in Range(stack)} :
         LET u == ExitStackExit(stack, released, e, fails)
         IN released' = u.released /\ exc' = u.exc
    /\ raised' = e
    /\ stack' = <<>>
    /\ pc' = "run_test_exit"

sessFrame == <<nSessions, sidx, acquired>>

\* test_block_config = dict(global_cfg): a copy of the top-level keys only, so
\* "variables" of the copy is the dict object of global_cfg (80); a fresh dict
\* is installed on the copy when the key is missing (82-83).
CopiedVariables == IF global_cfg.hasVariables THEN "G" ELSE "T"

\* Lines 80-93: copy the configuration, ensure "variables", create tavern_box
\* and store it under "tavern"; then `if not test_spec`: warning and return.
rt_begin ==
    /\ pc = "run_test"
    /\ test_block_config' = [hasVariables |-> TRUE, variables |-> CopiedVariables]
    /\ tavern_box' = [owner |-> idx, request_vars |-> 0]
    /\ heap' = IF CopiedVariables = "G"
               THEN [heap EXCEPT !["G"]["tavern"] = BoxRef]
               ELSE [heap EXCEPT !["T"] = [EmptyDict EXCEPT !["tavern"] = BoxRef]]
    /\ IF test_spec = "null"
       THEN /\ nwarn' = nwarn + 1
            /\ pc' = "run_test_exit"
            /\ UNCHANGED <<nIncludes, inc>>
       ELSE /\ \E n \in 0..MaxIncludes : nIncludes' = n
            /\ inc' = 1
            /\ pc' = "includes"
            /\ UNCHANGED nwarn
    /\ UNCHANGED <<idx, test_spec, passed, result, sawInvalid, sawFailed, handled,
                   exc, raised, cfgVars, sessVars, stageVars, included>>

\* for included in test_spec["includes"] (95-96): the next fragment; `names` are
\* the names included["variables"] declares (none: the key is missing).
rt_next_include ==
    /\ pc = "includes" /\ inc <= nIncludes
    /\ \E names \in SUBSET VarNames : included' = names
    /\ pc' = "include"
    /\ UNCHANGED <<runVars, exc, raised, cfgVars, envVars, nIncludes, inc, sessVars, stageVars>>

\* The body of the loop (97-99): check_env_var_settings, which may raise, then
\* test_block_config["variables"].update(included["variables"]).
rt_include ==
    /\ pc = "include"
    /\ \E ok \in BOOLEAN :
         IF included = {}
         THEN /\ ok
              /\ inc' = inc + 1 /\ included' = {}
              /\ pc' = "includes"
              /\ UNCHANGED <<heap, exc, raised>>
         ELSE IF ok
              THEN /\ heap' = WriteVariables(DictUpdate(Variables, included, IncVal(inc)))
                   /\ inc' = inc + 1 /\ included' = {}
                   /\ pc' = "includes"
                   /\ UNCHANGED <<exc, raised>>
              ELSE \* check_env_var_settings raises, outside the ExitStack
                   /\ exc' = Exc("MissingFormatError", "check_env_var_settings")
                   /\ raised' = Exc("MissingFormatError", "check_env_var_settings")
                   /\ pc' = "run_test_exit"
                   /\ UNCHANGED <<heap, inc, included>>
    /\ UNCHANGED <<runVars, cfgVars, test_block_config, tavern_box, nIncludes, sessVars, stageVars>>

\* Lines 101-106: the includes are done (the list and the loop index are not
\* read again); sessions = get_extra_sessions(test_spec): the test declares no
\* extra session, or MaxSessions of them.
rt_get_extra_sessions ==
    /\ pc = "includes" /\ inc > nIncludes
    /\ nIncludes' = 0 /\ inc' = 0
    /\ \E n \in {0, MaxSessions} : nSessions' = n
    /\ sidx' = 1
    /\ pc' = "enter_context"
    /\ UNCHANGED <<runVars, exc, raised, cfgVars, envVars, included, stack, acquired, released, stageVars>>

\* Variant of rt_enter_context: __exit__ is pushed before __enter__ runs, so
\* the session whose __enter__ raised is on the stack too.
rt_enter_context_push_first ==
    /\ pc = "enter_context" /\ sidx <= nSessions
    /\ \E ok \in BOOLEAN :
         IF ok
         THEN /\ acquired' = [acquired EXCEPT ![sidx] = @ + 1]
              /\ stack' = Append(stack, sidx)
              /\ sidx' = sidx + 1
              /\ UNCHANGED <<exc, raised, pc, released>>
         ELSE /\ LET u == ExitStackExit(Append(stack, sidx), released,
                                        Exc("SessionError", "enter_context"), {})
                 IN released' = u.released /\ exc' = u.exc
              /\ raised' = Exc("SessionError", "enter_context")
              /\ stack' = <<>>
              /\ pc' = "run_test_exit"
              /\ UNCHANGED <<acquired, sidx>>
    /\ UNCHANGED <<runVars, cfgVars, envVars, incVars, nSessions, stageVars>>

\* stack.enter_context(session): __enter__ runs first and __exit__ is pushed
\* only when it returned (108-110).
rt_enter_context ==
    /\ pc = "enter_context" /\ sidx <= nSessions
    /\ \E ok \in BOOLEAN :
         IF ok
         THEN /\ acquired' = [acquired EXCEPT ![sidx] = @ + 1]
              /\ stack' = Append(stack, sidx)
              /\ sidx' = sidx + 1
              /\ UNCHANGED <<exc, raised, pc, released>>
         ELSE /\ LeaveWith(Exc("SessionError", "enter_context"))
              /\ UNCHANGED <<acquired, sidx>>
    /\ UNCHANGED <<runVars, cfgVars, envVars, incVars, nSessions, stageVars>>

\* Variant of rt_sessions_entered: the `with` block ends after the sessions
\* are entered, so they are closed before the stage loop starts.
rt_sessions_entered_and_closed ==
    /\ pc = "enter_context" /\ sidx > nSessions
    /\ \E n \in 0..MaxStages : nStages' = n
    /\ stage' = 0
    /\ pc' = "stages"
    /\ released' = ExitStackExit(stack, released, NoExc, {}).released
    /\ stack' = <<>>
    /\ UNCHANGED <<runVars, exc, raised, cfgVars, envVars, incVars, nSessions, sidx, acquired,
                   nVerifiers, vi, ret, npass, fail_log>>

\* Every session is entered: the stage loop starts over test_spec["stages"] (113).
rt_sessions_entered ==
    /\ pc = "enter_context" /\ sidx > nSessions
    /\ \E n \in 0..MaxStages : nStages' = n
    /\ stage' = 0
    /\ pc' = "stages"
    /\ UNCHANGED <<runVars, exc, raised, cfgVars, envVars, incVars, sessVars, nVerifiers, vi, ret, npass, fail_log>>

\* for stage in test_spec["stages"]: the next stage, or the end of the with body.
rt_next_stage ==
    /\ pc = "stages"
    /\ IF stage < nStages
       THEN /\ stage' = stage + 1
            /\ pc' = "get_request_type"
            /\ UNCHANGED <<exc, raised, stack, released>>
       ELSE /\ LeaveWith(NoExc)
            /\ UNCHANGED stage
    /\ UNCHANGED <<runVars, cfgVars, envVars, incVars, sessFrame, nStages, nVerifiers, vi, ret, npass, fail_log>>

stageFrame == <<nStages, stage, nVerifiers, vi, ret, npass>>

\* log_fail(test, verifier, expected): one failure event; `verifier` is {} for
\* None and {v} for verifier v, `expected` is "None" or "expected".
log_fail(test, verifier, expected) ==
    Append(fail_log, [stage |-> test, verifier |-> verifier, expected |-> expected])

\* r = get_request_type(stage, test_block_config, sessions), MissingFormatError
\* logged and re-raised (116-120).
st_get_request_type ==
    /\ pc = "get_request_type"
    /\ \E ok \in BOOLEAN :
         IF ok THEN pc' = "request_vars" /\ UNCHANGED <<exc, raised, stack, released, fail_log>>
         ELSE LET e == Exc("MissingFormatError", "get_request_type")
              IN /\ fail_log' = IF IsMissingFormatError(e) THEN log_fail(stage, {}, "None")
                                 ELSE fail_log
                 /\ LeaveWith(e)
    /\ UNCHANGED <<runVars, cfgVars, envVars, incVars, sessFrame, stageFrame>>

\* tavern_box.update(request_vars=r.request_vars) (122)
st_request_vars ==
    /\ pc = "request_vars"
    /\ tavern_box' = [tavern_box EXCEPT !.request_vars = stage]
    /\ pc' = "get_expected"
    /\ UNCHANGED <<runVars, exc, raised, cfgVars, heap, test_block_config, incVars, sessVars, stageVars>>

\* expected = get_expected(...), TavernException logged and re-raised (124-128).
st_get_expected ==
    /\ pc = "get_expected"
    /\ \E ok \in BOOLEAN :
         IF ok THEN pc' = "delay_before" /\ UNCHANGED <<exc, raised, stack, released, fail_log>>
         ELSE LET e == Exc("MissingFormatError", "get_expected")
              IN /\ fail_log' = IF IsTavernException(e) THEN log_fail(stage, {}, "None")
                                 ELSE fail_log
                 /\ LeaveWith(e)
    /\ UNCHANGED <<runVars, cfgVars, envVars, incVars, sessFrame, stageFrame>>

\* delay(stage, "before") (130)
st_delay_before ==
    /\ pc = "delay_before"
    /\ pc' = "r_run"
    /\ UNCHANGED <<runVars, exc, raised, cfgVars, envVars, incVars, sessVars, stageVars>>

\* Variant of st_run: the failure is logged without the expected response.
st_run_logs_no_context ==
    /\ pc = "r_run"
    /\ \E ok \in BOOLEAN :
         IF ok THEN pc' = "get_verifiers" /\ UNCHANGED <<exc, raised, stack, released, fail_log>>
         ELSE /\ fail_log' = log_fail(stage, {}, "None")
              /\ LeaveWith(Exc("RequestError", "r.run"))
    /\ UNCHANGED <<runVars, cfgVars, envVars, incVars, sessFrame, stageFrame>>

\* response = r.run(), TavernException logged with `expected` and re-raised
\* (134-138).
st_run ==
    /\ pc = "r_run"
    /\ \E ok \in BOOLEAN :
         IF ok THEN pc' = "get_verifiers" /\ UNCHANGED <<exc, raised, stack, released, fail_log>>
         ELSE LET e == Exc("RequestError", "r.run")
              IN /\ fail_log' = IF IsTavernException(e) THEN log_fail(stage, {}, "expected")
                                 ELSE fail_log
                 /\ LeaveWith(e)
    /\ UNCHANGED <<runVars, cfgVars, envVars, incVars, sessFrame, stageFrame>>

\* verifiers = get_verifiers(stage, test_block_config, sessions, expected) (140)
st_get_verifiers ==
    /\ pc = "get_verifiers"
    /\ \E n \in 1..MaxVerifiers : nVerifiers' = n
    /\ vi' = 1
    /\ pc' = "verify"
    /\ UNCHANGED <<runVars, exc, raised, cfgVars, envVars, incVars, sessVars, nStages, stage, ret, npass, fail_log>>

\* ret = v.verify(response) for the next verifier (142-143)
st_verify ==
    /\ pc = "verify" /\ vi <= nVerifiers
    /\ \E errors \in ErrorLists, saved \in SavedKeys :
         ret' = [errors |-> errors, saved |-> saved]
    /\ pc' = "check"
    /\ UNCHANGED <<runVars, exc, raised, cfgVars, envVars, incVars, sessVars, nStages, stage, nVerifiers, vi, npass, fail_log>>

\* Variant of MergeSaved: ret.saved is dropped.
MergeSavedDropped(dict, saved, k, v) == dict

\* test_block_config["variables"].update(ret.saved) by verifier v of stage k (157)
MergeSaved(dict, saved, k, v) == DictUpdate(dict, saved, SavedVal(k, v))

\* Variant of st_check: the errors of a verifier are logged and the loop goes
\* on to the next verifier, merging ret.saved.
st_check_keeps_going ==
    /\ pc = "check"
    /\ fail_log' = IF ret.errors # <<>> THEN log_fail(stage, {vi}, "expected") ELSE fail_log
    /\ heap' = WriteVariables(MergeSaved(Variables, ret.saved, stage, vi))
    /\ vi' = vi + 1
    /\ pc' = "verify"
    /\ ret' = NoRet
    /\ UNCHANGED <<runVars, exc, raised, stack, released, cfgVars, test_block_config, tavern_box,
                   incVars, sessFrame, nStages, stage, nVerifiers, npass>>

\* if ret.errors: log_fail, raise AssertionError(assertion_message(...));
\* otherwise merge ret.saved and go on to the next verifier (145-157).  ret is
\* not read again after either.
st_check ==
    /\ pc = "check"
    /\ IF ret.errors # <<>>
       THEN /\ fail_log' = log_fail(stage, {vi}, "expected")
            /\ LeaveWith([kind |-> "AssertionError", origin |-> "verify",
                          msg |-> assertion_message("v.name", "in_file",
                                     <<"- ">> \o JoinErrors(ret.errors), "stage", "request", "response")])
            /\ UNCHANGED <<heap, vi>>
       ELSE /\ heap' = WriteVariables(MergeSaved(Variables, ret.saved, stage, vi))
            /\ vi' = vi + 1
            /\ pc' = "verify"
            /\ UNCHANGED <<exc, raised, stack, released, fail_log>>
    /\ ret' = NoRet
    /\ UNCHANGED <<runVars, cfgVars, test_block_config, tavern_box, incVars, sessFrame,
                   nStages, stage, nVerifiers, npass>>

\* Every verifier passed: log_pass(stage, verifiers) (159)
st_log_pass ==
    /\ pc = "verify" /\ vi > nVerifiers
    /\ npass' = npass + 1
    /\ pc' = "pop"
    /\ UNCHANGED <<runVars, exc, raised, cfgVars, envVars, incVars, sessVars, nStages, stage, nVerifiers, vi, ret,
                   fail_log>>

\* Variant of st_pop: the loop goes to the next stage right after the pop,
\* without delay(stage, "after").
st_pop_skips_delay ==
    /\ pc = "pop"
    /\ tavern_box' = [tavern_box EXCEPT !.request_vars = 0]
    /\ pc' = "stages"
    /\ UNCHANGED <<runVars, exc, raised, cfgVars, heap, test_block_config, incVars, sessVars, stageVars>>

\* tavern_box.pop("request_vars") (161)
st_pop ==
    /\ pc = "pop"
    /\ tavern_box' = [tavern_box EXCEPT !.request_vars = 0]
    /\ pc' = "delay_after"
    /\ UNCHANGED <<runVars, exc, raised, cfgVars, heap, test_block_config, incVars, sessVars, stageVars>>

\* delay(stage, "after") (162)
st_delay_after ==
    /\ pc = "delay_after"
    /\ pc' = "stages"
    /\ UNCHANGED <<runVars, exc, raised, cfgVars, envVars, incVars, sessVars, stageVars>>

(* ---------- run: the handler around run_test, lines 207-211 ---------- *)

\* Variant of run_handles: the handler names BadSchemaError.
run_handles_bad_schema_only(e) == IsBadSchemaError(e)

\* except exceptions.TestFailError (209)
run_handles(e) == IsTestFailError(e)

\* run_test has ended: its frame is gone (a fresh per-test dict with it), and
\* what it wrote to a dict that lives on is from now on an earlier test's write.
AfterTest(h) == [G |-> [n \in VarNames |-> Earlier(h["G"][n])], T |-> EmptyDict]

\* The locals of run_test after it returned or raised: as before the call.
FrameGone ==
    /\ nIncludes' = 0 /\ inc' = 0
    /\ nSessions' = 0 /\ sidx' = 0 /\ stack' = <<>>
    /\ acquired' = NoCounts /\ released' = NoCounts
    /\ nStages' = 0 /\ stage' = 0 /\ nVerifiers' = 0 /\ vi' = 0 /\ npass' = 0
    /\ ret' = NoRet
    /\ raised' = NoExc /\ fail_log' = <<>> /\ included' = {}

\* run_test returned: the loop of run goes on to the next document (a direct
\* caller has its result).
run_test_returned ==
    /\ pc = "run_test_exit" /\ exc = NoExc
    /\ heap' = AfterTest(heap)
    /\ pc' = (IF caller = "run" THEN "load" ELSE "returned")
    /\ FrameGone
    /\ UNCHANGED <<runVars, exc, cfgVars, test_block_config, tavern_box>>

\* except exceptions.TestFailError: passed = False; continue (209-211)
run_test_failed ==
    /\ pc = "run_test_exit" /\ exc # NoExc /\ run_handles(exc)
    /\ passed' = FALSE
    /\ sawFailed' = TRUE
    /\ handled' = exc
    /\ exc' = NoExc
    /\ heap' = AfterTest(heap)
    /\ pc' = "load"
    /\ FrameGone
    /\ UNCHANGED <<idx, test_spec, result, sawInvalid, nwarn, cfgVars, test_block_config, tavern_box>>

\* An exception the handler does not name leaves run (the file is closed by
\* the with of line 194).
run_propagates ==
    /\ pc = "run_test_exit" /\ exc # NoExc /\ ~run_handles(exc)
    /\ sawFailed' = TRUE
    /\ result' = "raised"
    /\ heap' = AfterTest(heap)
    /\ pc' = "done"
    /\ FrameGone
    /\ UNCHANGED <<idx, test_spec, passed, sawInvalid, handled, nwarn, exc, cfgVars, test_block_config, tavern_box>>

Next ==
    \/ run_next \/ run_empty \/ run_return \/ run_verify_tests
    \/ rt_begin \/ rt_next_include \/ rt_include \/ rt_get_extra_sessions \/ rt_enter_context
    \/ rt_sessions_entered \/ rt_next_stage
    \/ st_get_request_type \/ st_request_vars \/ st_get_expected \/ st_delay_before
    \/ st_run \/ st_get_verifiers \/ st_verify \/ st_check \/ st_log_pass \/ st_pop \/ st_delay_after
    \/ run_test_returned \/ run_test_failed \/ run_propagates

Spec == Init /\ [][Next]_vars

(* ---------- notions the properties use ---------- *)

\* Positions inside run_test, from its first statement to its return or raise.
TestPcs == {"run_test", "includes", "include", "enter_context", "stages", "get_request_type",
            "request_vars", "get_expected", "delay_before", "r_run", "get_verifiers",
            "verify", "check", "pop", "delay_after", "run_test_exit"}

\* run_test has been left: it returned (NoExc) or raised exc.
TestExited == pc = "run_test_exit"

\* run has been left: it returned result, or raised exc.
RunExited == pc = "done"

\* The transient entry the environment holds: the stage whose request_vars
\* variables["tavern"]["request_vars"] resolves to; 0 when there is none.
TransientEntry == IF Variables["tavern"] = BoxRef THEN tavern_box.request_vars ELSE 0

(* ---------- C1 ---------- *)

\* C1: whatever the documents of the file are, run returns, and it returns true
\* exactly when no document was schema-invalid and no run_test failed.
C1_RunReturnsConjunction ==
    RunExited => result = (IF ~sawInvalid /\ ~sawFailed THEN "True" ELSE "False")

(* ---------- C2 ---------- *)

\* C2: when a verifier reports errors, run_test raises a failure whose text
\* holds every error string of the verifier, and the handler of run catches
\* it: the next step records the document as failed, clears the exception and
\* is back at the head of the loop, so the failure does not leave run.
C2_VerificationFailureCaught ==
    [][ /\ (pc = "check" /\ ret.errors # <<>>) =>
               /\ pc' = "run_test_exit" /\ exc' # NoExc
               /\ exc'.origin = "verify" =>
                      \A i \in 1..Len(ret.errors) : ret.errors[i] \in Range(exc'.msg)
        /\ (TestExited /\ exc.origin = "verify") =>
               (pc' = "load" /\ ~passed' /\ sawFailed' /\ exc' = NoExc /\ result' = "running")
      ]_vars

(* ---------- C3 ---------- *)

\* C3: run_test is never active for a schema-invalid document, the document
\* counts as failed, and every document after a schema-invalid one is still
\* fetched, validated and run: run is left only with the file exhausted.
C3_InvalidDocumentDoesNotStopFile ==
    /\ pc \in TestPcs => test_spec # "invalid"
    /\ sawInvalid => ~passed
    /\ (RunExited /\ sawInvalid) => idx = MaxDocs

(* ---------- C4 ---------- *)

\* The places a dispatch failure or a request failure is raised.
DispatchOrRequest == {"get_request_type", "get_expected", "r.run"}

C5_SessionsReleasedExactlyOnce ==
    /\ \A s \in Sessions : acquired[s] <= 1 /\ released[s] <= acquired[s]
    /\ TestExited => (stack = <<>> /\ \A s \in Sessions : released[s] = acquired[s])

\* A verification failure in the second stage with every session acquired.
C5_Witness ==
    /\ TestExited /\ exc.origin = "verify" /\ stage = 2
    /\ nSessions = MaxSessions
    /\ \A s \in Sessions : acquired[s] = 1 /\ released[s] = 1

(* ---------- C6 ---------- *)

\* C6: when __enter__ of session sidx raises, run_test is left with a failure,
\* the sessions before sidx are each acquired and released once, session sidx
\* and the later ones are neither, and no stage has run.
C6_PartialAcquisitionReleased ==
    (TestExited /\ 1 <= sidx /\ sidx <= nSessions) =>
        /\ exc # NoExc
        /\ \A s \in Sessions :
             /\ s < sidx => (acquired[s] = 1 /\ released[s] = 1)
             /\ s >= sidx => (acquired[s] = 0 /\ released[s] = 0)
        /\ stage = 0 /\ npass = 0 /\ tavern_box.request_vars = 0

\* Opening the second session failed: the first one is released.
C6_Witness ==
    /\ TestExited /\ sidx = 2 /\ nSessions >= 2
    /\ exc.origin = "enter_context"
    /\ acquired[1] = 1 /\ released[1] = 1 /\ released[2] = 0

(* ---------- C7 ---------- *)

\* C7: once run_test has returned or raised, the global configuration and its
\* variables layer are what load_global_config gave.
C7_GlobalConfigurationUnchanged ==
    (TestExited \/ pc \in {"load", "done"}) =>
        /\ global_cfg = global_init.cfg
        /\ global_cfg.hasVariables => heap["G"] = global_init.variables

(* ---------- C8 ---------- *)

\* A value saved by a verifier of the running test.
IsSavedNow(val) == val[1] = "saved" /\ val[2] = 1

\* Verifier v of stage k has returned and its ret.saved has been merged, when
\* the stage loop is at stage st and the verifier loop at verifier i.
HasReturned(k, v, st, i) == k < st \/ (k = st /\ v < i)

\* Save <<k1, v1>> is not later than save <<k2, v2>>.
NotLater(k1, v1, k2, v2) == k1 < k2 \/ (k1 = k2 /\ v1 <= v2)

\* C8: inside one test, (a) the step that merges the ret.saved of passing
\* verifier vi of stage `stage` puts each of its names in the environment with
\* that verifier's value; (b) a name a verifier saved stays in the environment
\* at every later position of the test, with the value of that save or of a
\* later one; (c) the environment never holds a value of a verifier that has
\* not returned yet.
C8_SavedVisibleAfterwardsOnly ==
    [][ /\ (pc = "check" /\ ret.errors = <<>>) =>
               \A n \in ret.saved : Variables'[n] = SavedVal(stage, vi)
        /\ (pc \in TestPcs \ {"run_test"} /\ pc' \in TestPcs) =>
               \A n \in VarNames :
                   IsSavedNow(Variables[n]) =>
                       /\ IsSavedNow(Variables'[n])
                       /\ NotLater(Variables[n][3], Variables[n][4],
                                   Variables'[n][3], Variables'[n][4])
        /\ (pc' \in TestPcs \ {"run_test"}) =>
               \A n \in VarNames :
                   IsSavedNow(Variables'[n]) =>
                       HasReturned(Variables'[n][3], Variables'[n][4], stage', vi')
      ]_vars

\* The request dispatch of stage 2 sees the token verifier 1 of stage 1 saved.
C8_Witness ==
    pc = "get_request_type" /\ stage = 2 /\ Variables["token"] = SavedVal(1, 1)

(* ---------- C9 ---------- *)

\* C9: at the expectation dispatch and the verification of a stage the
\* environment holds the transient entry of that stage, and at the request
\* dispatch of a stage it holds none.
C9_TransientEntryScopedToStage ==
    /\ pc \in {"get_expected", "verify", "check"} => TransientEntry = stage
    /\ pc = "get_request_type" => TransientEntry = 0

(* ---------- C10 ---------- *)

\* C10: when run_test is left, on whatever path, the environment holds no
\* transient entry.
C10_TransientRemovedOnEveryExit ==
    TestExited => TransientEntry = 0

(* ---------- C11 ---------- *)

\* run_test has returned from a test whose stage list is empty.
ZeroStagesReturned == TestExited /\ test_spec = "valid" /\ exc = NoExc /\ nStages = 0

\* C11: (a) run skips a null document with one warning and leaves `passed` as
\* it is; (b) run_test called with a null document returns without raising,
\* with one warning; (c) run_test reaching the stage loop of a test with zero
\* stages returns without raising, has logged one warning and has issued no
\* request; (d) the step of run after either return leaves `passed` as it is.
C11_EmptyTestPassesWithWarning ==
    [][ /\ (pc = "load" /\ test_spec' = "null" /\ idx' = idx + 1) =>
               (nwarn' = 1 /\ passed' = passed /\ pc' = "load")
        /\ (pc = "run_test" /\ test_spec = "null") =>
               (pc' = "run_test_exit" /\ exc' = NoExc /\ nwarn' = 1)
        /\ (pc = "stages" /\ nStages = 0) =>
               (pc' = "run_test_exit" /\ exc' = NoExc /\ nwarn' = 1 /\ stage' = 0)
        /\ ((TestExited /\ test_spec = "null") \/ ZeroStagesReturned) =>
               passed' = passed
      ]_vars

(* ---------- C12 ---------- *)

\* C12: when run_test is left, what leaves it is what its body came to -- a
\* return when every stage passed, otherwise the failure raised in the body --
\* even when the __exit__ of a session failed, and every acquired session has
\* been released.
C12_ReleaseFailureDoesNotMask ==
    TestExited =>
        /\ exc = raised
        /\ \A s \in Sessions : released[s] = acquired[s]

(* ---------- C13 ---------- *)

\* C13: the verifier loop of a stage starts at its first verifier and goes on
\* to verifier vi + 1 only when verifier vi returned no error; when verifier
\* vi returns errors the same step raises out of run_test with the
\* environment, the pass events, the stage and the verifier index as they
\* were (ret.saved is not merged, log_pass and the after-delay are not
\* reached), and a run_test that has been left takes no further step, so no
\* later verifier and no later stage of the test runs.
C13_VerifiersFailFast ==
    [][ /\ pc = "get_verifiers" => (pc' = "verify" /\ vi' = 1)
        /\ (pc = "verify" /\ vi <= nVerifiers) => (pc' = "check" /\ vi' = vi)
        /\ (pc = "check" /\ ret.errors = <<>>) => (pc' = "verify" /\ vi' = vi + 1)
        /\ (pc = "check" /\ ret.errors # <<>>) =>
               /\ pc' = "run_test_exit" /\ raised'.origin = "verify"
               /\ heap' = heap /\ npass' = npass
               /\ stage' = stage /\ vi' = vi
               /\ fail_log' = <<[stage |-> stage, verifier |-> {vi}, expected |-> "expected"]>>
        /\ TestExited => pc' \notin TestPcs
      ]_vars

\* The first of two verifiers of the first of two stages reported errors.
C13_Witness ==
    /\ TestExited /\ raised.origin = "verify"
    /\ stage = 1 /\ nStages = 2 /\ vi = 1 /\ nVerifiers = 2 /\ npass = 0

(* ---------- C14 ---------- *)

\* The steps of one stage in the order of lines 116-162; the verifier loop
\* ("verify" and "check", closed by log_pass) is step 7.
StageSteps == <<"get_request_type", "request_vars", "get_expected", "delay_before", "r_run",
                "get_verifiers", "verify", "pop", "delay_after">>

StagePcs == Range(StageSteps) \cup {"check"}

StepOf(p) == IF p = "check" THEN 7 ELSE CHOOSE i \in 1..Len(StageSteps) : StageSteps[i] = p

\* C14: inside a stage every step leads to the next step of StageSteps (or
\* stays in the verifier loop, or raises out of run_test), so a passing stage
\* takes each step once and in that order; the transient entry is installed
\* by step 2 and removed by step 8 and by no other step, the pass event is
\* logged between steps 7 and 8 and nowhere else; and the request dispatch of
\* a stage is entered from the head of the loop only, which is reached from
\* inside a stage through its after-delay only.
C14_StageStepsInOrder ==
    [][ /\ (pc \in StagePcs /\ pc' \in StagePcs) =>
               /\ stage' = stage
               /\ \/ StepOf(pc') = StepOf(pc) + 1
                  \/ {pc, pc'} = {"verify", "check"}
        /\ (pc \in StagePcs /\ pc' \notin StagePcs) =>
               \/ pc' = "run_test_exit" /\ raised' # NoExc
               \/ pc = "delay_after" /\ pc' = "stages" /\ stage' = stage
        /\ (pc # "get_request_type" /\ pc' = "get_request_type") =>
               (pc = "stages" /\ stage' = stage + 1)
        /\ pc \in StagePcs =>
               /\ tavern_box'.request_vars =
                      (IF pc = "request_vars" THEN stage
                       ELSE IF pc = "pop" THEN 0 ELSE tavern_box.request_vars)
               /\ npass' = (IF pc = "verify" /\ pc' = "pop" THEN npass + 1 ELSE npass)
        /\ (pc' \in StagePcs) =>
               npass' = (IF pc' \in {"pop", "delay_after"} THEN stage' ELSE stage' - 1)
      ]_vars

\* The second stage of a test has passed and is at its after-delay.
C14_Witness ==
    pc = "delay_after" /\ stage = 2 /\ npass = 2 /\ tavern_box.request_vars = 0

(* ---------- C15 ---------- *)

\* C15: when r.run() of a stage fails, the same step logs one failure event
\* for that stage with the expected response and no verifier (the only
\* failure event of the test), raises the failure of r.run() itself out of
\* the stage loop, and leaves the environment, the pass events and the
\* verifier loop untouched; a run_test that has been left takes no further
\* step, so no verifier and no later stage runs.
C15_RequestFailureLoggedAndRaised ==
    [][ /\ (pc = "r_run" /\ pc' # "get_verifiers") =>
               /\ pc' = "run_test_exit"
               /\ fail_log' = <<[stage |-> stage, verifier |-> {}, expected |-> "expected"]>>
               /\ raised' = Exc("RequestError", "r.run")
               /\ heap' = heap /\ npass' = npass
               /\ stage' = stage /\ vi' = vi /\ nVerifiers' = nVerifiers
        /\ TestExited => (pc' \notin TestPcs /\ stage' = 0)
      ]_vars

\* The request of the second stage failed after the first stage passed.
C15_Witness ==
    /\ TestExited /\ raised = Exc("RequestError", "r.run")
    /\ stage = 2 /\ npass = 1
    /\ fail_log = <<[stage |-> 2, verifier |-> {}, expected |-> "expected"]>>

(* ---------- C16 ---------- *)

\* Positions of the stage loop: its head and the steps of a stage.
LoopPcs == StagePcs \cup {"stages"}

\* C16: at every position of the stage loop -- the request, expectation and
\* verifier dispatches among them -- every session the test declares has been
\* acquired once and released never and is on the ExitStack, no other session
\* is, and the set of sessions is the same from one position of the loop to
\* the next.
C16_SessionsSpanStageLoop ==
    [][ /\ pc' \in LoopPcs =>
               /\ stack' = [i \in 1..nSessions' |-> i]
               /\ \A s \in Sessions :
                      /\ acquired'[s] = (IF s <= nSessions' THEN 1 ELSE 0)
                      /\ released'[s] = 0
        /\ (pc \in LoopPcs /\ pc' \in LoopPcs) =>
               (nSessions' = nSessions /\ stack' = stack)
      ]_vars

\* The second stage is being verified with every session open.
C16_Witness ==
    /\ pc = "check" /\ stage = 2
    /\ nSessions = MaxSessions /\ Len(stack) = MaxSessions
    /\ \A s \in Sessions : acquired[s] = 1 /\ released[s] = 0

(* ---------- C17 ---------- *)

\* When a value was written, as a triple ordered lexicographically: before
\* the includes of the running test (0), by its include i (1, i), or by
\* verifier v of its stage k (2, k, v).
WriteTime(val) ==
    IF val[2] = 0 THEN <<0, 0, 0>>
    ELSE IF val[1] = "include" THEN <<1, val[3], 0>>
    ELSE <<2, val[3], val[4]>>

\* Time a is not after time b.
NotAfter(a, b) ==
    \/ a[1] < b[1]
    \/ a[1] = b[1] /\ a[2] < b[2]
    \/ a[1] = b[1] /\ a[2] = b[2] /\ a[3] <= b[3]

\* C17: (a) the merge of include `inc` leaves every name it declares with the
\* value of that include, whatever the name held (a global value, the value
\* of an earlier include), and the other names as they were; (b) the merge of
\* the ret.saved of verifier vi of stage `stage` does the same with the
\* verifier's value; (c) no other step of the test changes the environment;
\* (d) so the value of a name is never replaced by an older one.
C17_MostRecentWriteWins ==
    [][ /\ (pc = "include" /\ pc' = "includes") =>
               \A n \in VarNames :
                   Variables'[n] = (IF n \in included THEN IncVal(inc) ELSE Variables[n])
        /\ (pc = "check" /\ ret.errors = <<>>) =>
               \A n \in VarNames :
                   Variables'[n] = (IF n \in ret.saved THEN SavedVal(stage, vi) ELSE Variables[n])
        /\ (pc \in TestPcs \ {"run_test", "include", "check"} /\ pc' \in TestPcs) =>
               Variables' = Variables
        /\ (pc \in TestPcs \ {"run_test"} /\ pc' \in TestPcs /\ heap' # heap) =>
               \A n \in VarNames : NotAfter(WriteTime(Variables[n]), WriteTime(Variables'[n]))
      ]_vars

\* The value the second include gave `token` has replaced the global one, and
\* a verifier of the first stage is about to replace it by the one it saved.
C17_Witness ==
    /\ pc = "check" /\ stage = 1 /\ ret.errors = <<>> /\ ret.saved = {"token"}
    /\ global_init.variables["token"] = GlobalVal
    /\ Variables["token"] = IncVal(2)

(* ---------- C18 ---------- *)

\* The values name n can have at the first stage of a test when nothing of an
\* earlier document is visible: what load_global_config gave, the value of an
\* include of this document, and for the reserved name the namespace object.
OwnLayers(n) ==
    {global_init.variables[n]} \cup {IncVal(i) : i \in 1..MaxIncludes}
        \cup (IF n = "tavern" THEN {BoxRef} ELSE {})

\* C18: at the request dispatch of the first stage of every document, each
\* name of the environment has a value of the global configuration, of the
\* document's own includes or the reserved namespace; none has a value an
\* include or a verifier of an earlier document of the file wrote.
C18_DocumentsIndependent ==
    (pc = "get_request_type" /\ stage = 1) =>
        \A n \in VarNames : Variables[n] \in OwnLayers(n)

(* ---------- C19 ---------- *)

\* The positions where a dispatcher or a verifier reads the environment.
ReadPcs == {"get_request_type", "get_expected", "get_verifiers", "verify", "check"}

\* C19: wherever a dispatcher or a verifier reads the environment, the entry
\* `tavern` is the namespace object this run_test created, and from the
\* expectation dispatch on that object holds the request variables of the
\* running stage -- whatever names the includes declare or the verifiers save.
C19_ReservedNamespaceKept ==
    /\ pc \in ReadPcs => (Variables["tavern"] = BoxRef /\ tavern_box.owner = idx)
    /\ pc \in ReadPcs \ {"get_request_type"} => tavern_box.request_vars = stage

====
